---- MODULE Spec2Model ----
(***************************************************************************)
(* Model of cav_vs_inf_env.py: the gym environments BaseZeroADEnv,         *)
(* CavalryVsInfantryEnv and MinimapCavVsInfEnv driving a 0 A.D. engine.     *)
(*                                                                         *)
(* Numbers.  Rewards are kept in units of 1/RewardScale (the step penalty  *)
(* 0.0001 is 1), mean rewards handed to on_train_result in hundredths, and *)
(* coordinates of commands in thousandths.                                 *)
(*                                                                         *)
(* The engine (zero_ad.ZeroAD) is outside the repository: every state it   *)
(* returns is an arbitrary member of Snapshots.  A call of step() runs to   *)
(* its end before any other call starts (the code is single-threaded): pc  *)
(* and i are the position of the running call and its loop counter.        *)
(***************************************************************************)
EXTENDS Integers, Sequences, FiniteSets, TLC

VARIABLES cls, level, caution_factor, prev_state, state, cum_reward,
          pc, i, arg, entry, sent, loaded, ret, printed, calls, episode

vars == <<cls, level, caution_factor, prev_state, state, cum_reward,
          pc, i, arg, entry, sent, loaded, ret, printed, calls, episode>>

\* ---------------------------------------------------------------- bounds
MaxHealth == 1
MaxLevel == 8
MaxCalls == 3
MaxUnits == 2
MaxMean == 3
MeanBelow == 7
MaxArmy == 3
MaxCoord == 1
MaxEpisodeCalls == 4

\* ------------------------------------------------------- program constants
step_count == 8
RewardScale == 10000
player_units == 5
percent_to_advance == 85
LevelCeiling == 7
MaxEnemyUnits == 7
CautionLevel == 5
InitCaution == 10
RelaxedCaution == 5

Cav == "CavalryVsInfantryEnv"
Minimap == "MinimapCavVsInfEnv"

\* ------------------------------------------------------------ engine data
Status == {"active", "defeated", "won"}

\* The statuses the engine reports while an episode is played.
EpisodeStatus == {"active", "defeated"}

None == [none |-> TRUE]

\* The units of one snapshot: the agent's unit (id 1) and the opponent's
\* unit (id 2), each at its full health MaxHealth or one point below it; a
\* unit of health 0 is gone from the list.
UnitOf(id, h) == [id |-> id, owner |-> id, health |-> h, x |-> 10 * (id - 1), z |-> 0]

UnitList(h1, h2) ==
    (IF h1 > 0 THEN <<UnitOf(1, h1)>> ELSE <<>>) \o
    (IF h2 > 0 THEN <<UnitOf(2, h2)>> ELSE <<>>)

UnitLists == {UnitList(h1, h2) : h1 \in (MaxHealth - 1)..MaxHealth, h2 \in (MaxHealth - 1)..MaxHealth}

\* The players of the snapshots an instance of class c is run against: all
\* three players may have left 'active' for CavalryVsInfantryEnv; for
\* MinimapCavVsInfEnv player 0 (the world) stays active.
PlayerStates(c) ==
    IF c = Minimap
    THEN {p \in [0..2 -> EpisodeStatus] : p[0] = "active"}
    ELSE [0..2 -> EpisodeStatus]

Snapshots(c) == [players : PlayerStates(c), units : UnitLists]

\* What game.reset returns: the start of the scenario, every player active
\* and both units at full health.
StartSnapshot == [players |-> [k \in 0..2 |-> "active"], units |-> UnitList(MaxHealth, MaxHealth)]

Min(a, b) == IF a < b THEN a ELSE b

\* ------------------------------------------------------------ state queries
\* state.units(owner=o): the units of that owner, in the state's unit order.
units(s, o) == SelectSeq(s.units, LAMBDA u : u.owner = o)

\* state.data['players'][index]['state']
get_player_state(s, index) == s.players[index]

RECURSIVE SumHealth(_)
SumHealth(us) == IF us = <<>> THEN 0 ELSE Head(us).health + SumHealth(Tail(us))

\* A variant that sums the health of every unit, whoever owns it.
all_unit_health(s, owner) == SumHealth(s.units)

\* sum(unit.health(True) for unit in state.units(owner=owner))
player_unit_health(s, owner) == SumHealth(units(s, owner))

\* ------------------------------------------------------------ reward engine
\* A variant that tests the opponent's status first.
BaseRewardOpponentFirst(prev, s) ==
    IF get_player_state(s, 2) = "defeated" THEN 1 * RewardScale
    ELSE IF get_player_state(s, 1) = "defeated" THEN -1 * RewardScale
    ELSE 0

\* BaseZeroADEnv.reward: the terminal win/loss policy.
BaseReward(prev, s) ==
    IF get_player_state(s, 1) = "defeated" THEN -1 * RewardScale
    ELSE IF get_player_state(s, 2) = "defeated" THEN 1 * RewardScale
    ELSE 0

\* assert(cond, msg) asserts a two-element tuple, which is always true: the
\* statement never raises, whatever cond is.
AssertTuple(cond) == TRUE

\* MinimapCavVsInfEnv.damage_diff.  The result is "raised" when an assertion
\* fires and the number otherwise.
damage_diff(cf, prev, s) ==
    LET enemy_damage == player_unit_health(prev, 2) - player_unit_health(s, 2)
        player_damage == player_unit_health(prev, 1) - player_unit_health(s, 1)
    IN  [raised |-> ~AssertTuple(enemy_damage >= 0) \/ ~AssertTuple(player_damage >= 0),
         value |-> (enemy_damage - cf * player_damage) * RewardScale]

\* MinimapCavVsInfEnv.reward: damage_diff - 0.0001.
MinimapReward(cf, prev, s) ==
    LET d == damage_diff(cf, prev, s)
    IN  [raised |-> d.raised, value |-> d.value - 1]

\* self.reward(prev_state, state), dispatched on the class of the instance.
reward(c, cf, prev, s) ==
    IF c = Minimap THEN MinimapReward(cf, prev, s)
    ELSE [raised |-> FALSE, value |-> BaseReward(prev, s)]

\* -------------------------------------------------------------- curriculum
\* A variant without the ceiling on the number of enemy units.
max_reward_uncapped(lv) == lv

max_reward(lv) == Min(lv, MaxEnemyUnits)

\* A variant that loses the sign of the lower bound.
min_reward_unsigned(cf) == cf * player_units

min_reward(cf) == -cf * player_units

\* reward_to_advance, in hundredths.
reward_to_advance(lv, cf) ==
    100 * min_reward(cf) + percent_to_advance * (max_reward(lv) - min_reward(cf))

\* mean_reward > reward_to_advance, mean_reward in hundredths.
Advances(lv, cf, mean_reward) == mean_reward > reward_to_advance(lv, cf)

\* A variant whose ceiling is inclusive: level 7 gets a file of its own.
scenario_config_file_inclusive(c, lv) ==
    IF c = Minimap
    THEN IF lv <= LevelCeiling
         THEN "CavalryVsInfantryL" \o ToString(lv) \o ".json"
         ELSE "CavalryVsInfantry.json"
    ELSE "CavalryVsInfantry.json"

\* MinimapCavVsInfEnv.scenario_config_file / CavalryVsInfantryEnv's.
scenario_config_file(c, lv) ==
    IF c = Minimap
    THEN IF lv < LevelCeiling
         THEN "CavalryVsInfantryL" \o ToString(lv) \o ".json"
         ELSE "CavalryVsInfantry.json"
    ELSE "CavalryVsInfantry.json"

\* ----------------------------------------------------------- episode stats
\* A variant that reads the agent's status for the win flag.
BaseStatsAgent(cum, s) ==
    [reward |-> cum, win |-> get_player_state(s, 1) = "defeated"]

\* BaseZeroADEnv.episode_complete_stats
BaseStats(cum, s) ==
    [reward |-> cum, win |-> get_player_state(s, 2) = "defeated"]

\* stats['reward_ratio'], kept as the fraction num/den (both in units of
\* 1/RewardScale): (cum_reward - min_reward) / (max_reward - min_reward).
reward_ratio(cum, lv, cf) ==
    [num |-> cum - min_reward(cf) * RewardScale,
     den |-> (max_reward(lv) - min_reward(cf)) * RewardScale]

\* MinimapCavVsInfEnv.episode_complete_stats: the stats it returns.
MinimapStats(cum, lv, cf, s) ==
    BaseStats(cum, s) @@ [reward_ratio |-> reward_ratio(cum, lv, cf), level |-> lv]

\* MinimapCavVsInfEnv.episode_complete_stats: the lines it prints when
\* reward_ratio > 1 (the denominator is positive).
AboveMaxLines(cum, lv, cf, s) ==
    IF reward_ratio(cum, lv, cf).num > reward_ratio(cum, lv, cf).den
    THEN << [line |-> "---------- Reward is above max expected value -----------"],
            [line |-> "vs", cum_reward |-> cum, max_reward |-> max_reward(lv)],
            [line |-> "enemy health:", health |-> player_unit_health(s, 2)] >>
    ELSE <<>>

episode_complete_stats(c, cum, lv, cf, s) ==
    IF c = Minimap THEN MinimapStats(cum, lv, cf, s) ELSE BaseStats(cum, s)

\* Everything step() prints when done: episode_complete_stats' own lines,
\* then the 'episode complete.' line with the stats.
EpisodeLine(stats) == [line |-> "episode complete.", stats |-> stats]

CompletionLines(c, cum, lv, cf, s) ==
    (IF c = Minimap THEN AboveMaxLines(cum, lv, cf, s) ELSE <<>>)
    \o <<EpisodeLine(episode_complete_stats(c, cum, lv, cf, s))>>

AdvancingLine(lv) == [line |-> "advancing to level", level |-> lv]

\* The episode-completion reports among printed lines.
Reports(lines) == SelectSeq(lines, LAMBDA l : l.line = "episode complete.")

\* A variant that looks at the agent and the opponent only.
DoneAgentOpponent(s) == \E k \in 1..2 : s.players[k] # "active"

\* done = any(state != 'active' for the players of the state)
Done(s) == \E k \in DOMAIN s.players : s.players[k] # "active"

\* ---------------------------------------------------------- action resolver
RECURSIVE SumX(_), SumZ(_), IdsOf(_)
SumX(us) == IF us = <<>> THEN 0 ELSE Head(us).x + SumX(Tail(us))
SumZ(us) == IF us = <<>> THEN 0 ELSE Head(us).z + SumZ(Tail(us))
IdsOf(us) == IF us = <<>> THEN <<>> ELSE <<Head(us).id>> \o IdsOf(Tail(us))

\* A point in thousandths; nan marks numpy's NaN.
Point(x, z) == [nan |-> FALSE, x |-> x, z |-> z]
NaN == [nan |-> TRUE, x |-> 0, z |-> 0]

\* center: np.mean(positions, axis=0); the mean of no positions is NaN.
center(us) ==
    IF us = <<>> THEN NaN
    ELSE Point((1000 * SumX(us)) \div Len(us), (1000 * SumZ(us)) \div Len(us))

\* enemy_offset: center(enemy_units) - center(player_units)
enemy_offset(s) ==
    LET e == center(units(s, 2))
        p == center(units(s, 1))
    IN  IF e.nan \/ p.nan THEN NaN ELSE Point(e.x - p.x, e.z - p.z)

\* The integer square root, by bisection.
RECURSIVE SqrtBetween(_, _, _)
SqrtBetween(n, lo, hi) ==
    IF lo >= hi THEN lo
    ELSE LET mid == (lo + hi + 1) \div 2
         IN  IF mid * mid <= n THEN SqrtBetween(n, mid, hi)
             ELSE SqrtBetween(n, lo, mid - 1)
ISqrt(n) == SqrtBetween(n, 0, Min(n, 46340))

\* np.linalg.norm(offset, ord=2), in thousandths.
norm(o) == ISqrt(o.x * o.x + o.z * o.z)

walk(us, pos) == [type |-> "walk", units |-> IdsOf(us), nan |-> pos.nan,
                  x |-> pos.x, z |-> pos.z, target |-> 0]
attack_cmd(us, enemy) == [type |-> "attack", units |-> IdsOf(us), nan |-> FALSE,
                          x |-> 0, z |-> 0, target |-> enemy.id]
reveal_map == [type |-> "reveal-map", units |-> <<>>, nan |-> FALSE,
               x |-> 0, z |-> 0, target |-> 0]
NoCommand == [type |-> "none", units |-> <<>>, nan |-> FALSE,
              x |-> 0, z |-> 0, target |-> 0]

Resolved(cmd) == [raised |-> FALSE, cmd |-> cmd]
Raised == [raised |-> TRUE, cmd |-> NoCommand]

\* CavalryVsInfantryEnv.retreat: 20 behind the centre, away from the enemy.
\* 0/0 and any operation on NaN give NaN.  With no unit on either side both
\* centres are the scalar NaN, and np.linalg.norm(offset, ord=2) of a scalar
\* raises.
retreat(s) ==
    LET us == units(s, 1)
        c == center(us)
        offset == enemy_offset(s)
    IN  IF us = <<>> /\ units(s, 2) = <<>> THEN Raised
        ELSE IF c.nan \/ offset.nan \/ norm(offset) = 0 THEN Resolved(walk(us, NaN))
        ELSE Resolved(walk(us, Point(c.x - (20 * 1000 * offset.x) \div norm(offset),
                                     c.z - (20 * 1000 * offset.z) \div norm(offset))))

\* The squared distance of unit u to the point c, in thousandths squared.
Dist2(u, c) == (1000 * u.x - c.x) * (1000 * u.x - c.x) + (1000 * u.z - c.z) * (1000 * u.z - c.z)

\* A variant that keeps the last index of the minimum.
argmin_last(es, c) ==
    IF c.nan THEN Len(es)
    ELSE CHOOSE k \in 1..Len(es) :
            /\ \A j \in 1..Len(es) : Dist2(es[k], c) <= Dist2(es[j], c)
            /\ \A j \in (k + 1)..Len(es) : Dist2(es[j], c) > Dist2(es[k], c)

\* np.argmin(dists): the first index of the minimum; with a NaN centre every
\* distance is NaN and argmin gives the first index.
argmin(es, c) ==
    IF c.nan THEN 1
    ELSE CHOOSE k \in 1..Len(es) :
            /\ \A j \in 1..Len(es) : Dist2(es[k], c) <= Dist2(es[j], c)
            /\ \A j \in 1..(k - 1) : Dist2(es[j], c) > Dist2(es[k], c)

\* CavalryVsInfantryEnv.attack: with no enemy unit numpy raises.
attack(s) ==
    LET us == units(s, 1)
        c == center(us)
        enemy_units == units(s, 2)
    IN  IF enemy_units = <<>> THEN Raised
        ELSE Resolved(attack_cmd(us, enemy_units[argmin(enemy_units, c)]))

\* 1000 * cos(2*pi*k/8) and 1000 * sin(2*pi*k/8), rounded.
Cos8(k) == <<1000, 707, 0, -707, -1000, -707, 0, 707>>[(k % 8) + 1]
Sin8(k) == Cos8(k + 6)

\* MinimapCavVsInfEnv.move(2*pi*action_index/8, distance=15)
move(s, k) ==
    LET us == units(s, 1)
        c == center(us)
    IN  IF c.nan THEN Resolved(walk(us, NaN))
        ELSE Resolved(walk(us, Point(c.x + 15 * Cos8(k), c.z + 15 * Sin8(k))))

\* resolve_action of the two classes.
CavResolve(s, action_index) == IF action_index = 0 THEN retreat(s) ELSE attack(s)

MinimapResolve(s, action_index) ==
    IF action_index = 8 THEN attack(s) ELSE move(s, action_index)

resolve_action(c, s, action_index) ==
    IF c = Minimap THEN MinimapResolve(s, action_index) ELSE CavResolve(s, action_index)

\* Discrete(2) and Discrete(9)
action_space(c) == IF c = Minimap THEN 0..8 ELSE 0..1

\* ------------------------------------------------------- pieces of step()
\* A variant that keeps the old previous snapshot.
stale_prev(prev, cur) == prev

\* self.prev_state = self.state
shifted_prev(prev, cur) == cur

\* A variant that leaves the episode's total in the accumulator.
cum_kept(done, total) == total

\* self.cum_reward += reward; if done: ...; self.cum_reward = 0
cum_after(done, total) == IF done THEN 0 ELSE total

\* ------------------------------------------------------------------- state
\* cls             the class of the instance
\* level, caution_factor   MinimapCavVsInfEnv's curriculum (0 in a class
\*                 that has neither attribute)
\* prev_state, state, cum_reward   BaseZeroADEnv's attributes
\* pc, i           the running call ("idle": none) and step()'s loop counter
\* arg, entry      the action_index of the last step() call, and self.state
\*                 when it was called
\* sent            the commands the last reset() or step() call has handed to
\*                 game.step, in order
\* loaded          the scenario file of the last game.reset
\* ret             what the last call returned
\* printed         the lines the last call printed, in order
\* calls           the number of calls made so far
\* episode         a history of the running episode, which the code does not
\*                 keep: the level and caution_factor at the last reset(), the
\*                 sum of the rewards step() has returned in the episode (an
\*                 episode starts at reset(), and at the first step() after
\*                 one that returned done), and whether the episode is over
NoEpisode == [level |-> 0, caution_factor |-> 0, reward |-> 0, over |-> FALSE]

MeanRewards == {100 * k : k \in (-MeanBelow)..MaxMean}

NoReturn == [call |-> "none", reward |-> 0, done |-> FALSE, raised |-> FALSE, mean_reward |-> 0]

InitEnv(c, lv) ==
    /\ cls = c
    /\ level = lv
    /\ caution_factor = IF c = Minimap THEN InitCaution ELSE 0
    /\ prev_state = None
    /\ state = None
    /\ cum_reward = 0
    /\ pc = "idle"
    /\ i = 0
    /\ arg = 0
    /\ entry = None
    /\ sent = <<>>
    /\ loaded = ""
    /\ ret = NoReturn
    /\ printed = <<>>
    /\ calls = 0
    /\ episode = NoEpisode

\* MinimapCavVsInfEnv(config) with the default level: config.get('level', 1)
Init == InitEnv(Minimap, 1)

\* MinimapCavVsInfEnv(config) with a configured level
InitLevels == \E lv \in 1..MaxLevel : InitEnv(Minimap, lv)

\* CavalryVsInfantryEnv(config)
InitCav == InitEnv(Cav, 0)

\* BaseZeroADEnv.reset, as one of at most n calls
ResetIn(n) ==
    /\ pc = "idle"
    /\ calls < n
    /\ prev_state' = StartSnapshot
    /\ state' \in Snapshots(cls)
    /\ loaded' = scenario_config_file(cls, level)
    /\ sent' = <<reveal_map>>
    /\ ret' = [NoReturn EXCEPT !.call = "reset"]
    /\ printed' = <<>>
    /\ calls' = calls + 1
    /\ episode' = [level |-> level, caution_factor |-> caution_factor,
                   reward |-> 0, over |-> FALSE]
    /\ UNCHANGED <<cls, level, caution_factor, cum_reward, pc, i, arg, entry>>

Reset == ResetIn(MaxCalls)

\* step(), when resolve_action raises: nothing has been assigned yet.
StepRaiseIn(n) ==
    /\ pc = "idle"
    /\ state # None
    /\ calls < n
    /\ \E a \in action_space(cls) :
          /\ resolve_action(cls, state, a).raised
          /\ arg' = a
    /\ entry' = state
    /\ sent' = <<>>
    /\ ret' = [NoReturn EXCEPT !.call = "step", !.raised = TRUE]
    /\ printed' = <<>>
    /\ calls' = calls + 1
    /\ UNCHANGED <<cls, level, caution_factor, prev_state, state, cum_reward, pc, i, loaded,
                   episode>>

StepRaise == StepRaiseIn(MaxCalls)

\* step(), lines 32-34: resolve the action, shift the snapshots, first tick.
StepBeginIn(n) ==
    /\ pc = "idle"
    /\ state # None
    /\ calls < n
    /\ \E a \in action_space(cls) :
          /\ ~resolve_action(cls, state, a).raised
          /\ arg' = a
          /\ sent' = <<resolve_action(cls, state, a).cmd>>
    /\ entry' = state
    /\ prev_state' = shifted_prev(prev_state, state)
    /\ state' \in Snapshots(cls)
    /\ pc' = "step"
    /\ i' = 0
    /\ ret' = NoReturn
    /\ printed' = <<>>
    /\ calls' = calls + 1
    /\ episode' = [episode EXCEPT !.reward = IF episode.over THEN 0 ELSE @,
                                  !.over = FALSE]
    /\ UNCHANGED <<cls, level, caution_factor, cum_reward, loaded>>

StepBegin == StepBeginIn(MaxCalls)

\* step(), lines 35-36: one pass of the loop, a tick with no command.
StepTick ==
    /\ pc = "step"
    /\ i < step_count - 1
    /\ state' \in Snapshots(cls)
    /\ sent' = Append(sent, NoCommand)
    /\ i' = i + 1
    /\ UNCHANGED <<cls, level, caution_factor, prev_state, cum_reward, pc, arg, entry,
                   loaded, ret, printed, calls, episode>>

\* step(), lines 38-52: done, the reward, the accumulator and the report.
StepEnd ==
    /\ pc = "step"
    /\ i = step_count - 1
    /\ LET done == Done(state)
           r == reward(cls, caution_factor, prev_state, state)
           total == cum_reward + r.value
       IN  IF r.raised
           THEN /\ ret' = [NoReturn EXCEPT !.call = "step", !.raised = TRUE]
                /\ printed' = <<>>
                /\ UNCHANGED <<cum_reward, episode>>
           ELSE /\ ret' = [NoReturn EXCEPT !.call = "step", !.reward = r.value, !.done = done]
                /\ printed' = IF done
                              THEN CompletionLines(cls, total, level, caution_factor, state)
                              ELSE <<>>
                /\ cum_reward' = cum_after(done, total)
                /\ episode' = [episode EXCEPT !.reward = @ + r.value, !.over = done]
    /\ pc' = "idle"
    /\ UNCHANGED <<cls, level, caution_factor, prev_state, state, i, arg, entry, sent,
                   loaded, calls>>

\* A variant that also empties the accumulator when it advances.
OnTrainResultClearing ==
    /\ pc = "idle"
    /\ cls = Minimap
    /\ calls < MaxCalls
    /\ level <= MaxLevel
    /\ \E mean_reward \in MeanRewards :
          /\ ret' = [NoReturn EXCEPT !.call = "on_train_result", !.mean_reward = mean_reward]
          /\ IF Advances(level, caution_factor, mean_reward)
             THEN /\ level' = level + 1
                  /\ printed' = <<AdvancingLine(level + 1)>>
                  /\ caution_factor' = IF level + 1 > CautionLevel THEN RelaxedCaution
                                       ELSE caution_factor
                  /\ cum_reward' = 0
             ELSE /\ printed' = <<>>
                  /\ UNCHANGED <<level, caution_factor, cum_reward>>
    /\ sent' = <<>>
    /\ calls' = calls + 1
    /\ UNCHANGED <<cls, prev_state, state, pc, i, arg, entry, loaded, episode>>

\* MinimapCavVsInfEnv.on_train_result
OnTrainResult ==
    /\ pc = "idle"
    /\ cls = Minimap
    /\ calls < MaxCalls
    /\ level <= MaxLevel
    /\ \E mean_reward \in MeanRewards :
          /\ ret' = [NoReturn EXCEPT !.call = "on_train_result", !.mean_reward = mean_reward]
          /\ IF Advances(level, caution_factor, mean_reward)
             THEN /\ level' = level + 1
                  /\ printed' = <<AdvancingLine(level + 1)>>
                  /\ caution_factor' = IF level + 1 > CautionLevel THEN RelaxedCaution
                                       ELSE caution_factor
             ELSE /\ printed' = <<>>
                  /\ UNCHANGED <<level, caution_factor>>
    /\ sent' = <<>>
    /\ calls' = calls + 1
    /\ UNCHANGED <<cls, prev_state, state, cum_reward, pc, i, arg, entry, loaded, episode>>

Next == Reset \/ StepRaise \/ StepBegin \/ StepTick \/ StepEnd \/ OnTrainResult

Spec == Init /\ [][Next]_vars

\* The calls that read or write the curriculum, on an instance constructed
\* with any level.
NextCurriculum == Reset \/ OnTrainResult

SpecCurriculum == InitLevels /\ [][NextCurriculum]_vars

NextCav == Reset \/ StepRaise \/ StepBegin \/ StepTick \/ StepEnd

SpecCav == InitCav /\ [][NextCav]_vars

\* MinimapCavVsInfEnv(config) configured with the last level that is played
\* with the initial caution factor.
InitAtCaution == InitEnv(Minimap, CautionLevel)

SpecCaution == InitAtCaution /\ [][Next]_vars

\* Episodes of a MinimapCavVsInfEnv that is never trained further: reset() and
\* step() only, up to MaxEpisodeCalls calls.
NextEpisodes ==
    \/ ResetIn(MaxEpisodeCalls)
    \/ StepRaiseIn(MaxEpisodeCalls)
    \/ StepBeginIn(MaxEpisodeCalls)
    \/ StepTick
    \/ StepEnd

SpecEpisodes == Init /\ [][NextEpisodes]_vars

\* ------------------------------------------------- the reward functions alone
\* SpecReward applies self.reward to one (previous, current) pair drawn from
\* the inputs below: every combination of the three statuses for the terminal
\* policy, and for the damage policy unit lists of up to MaxUnits units of any
\* owner (0, 1, 2), together with the pair of the spec's scenario B.
AllActive == [k \in 0..2 |-> "active"]

UnitAt(k, o, h) == [id |-> k, owner |-> o, health |-> h, x |-> 0, z |-> 0]

UnitListsUpTo(n) ==
    UNION { { [k \in 1..m |-> UnitAt(k, f[k][1], f[k][2])] :
                f \in [1..m -> (0..2) \X (1..MaxHealth)] } : m \in 0..n }

ScenarioBPrev == [players |-> AllActive, units |-> <<UnitAt(1, 1, 100), UnitAt(2, 2, 30)>>]
ScenarioBCur == [players |-> AllActive, units |-> <<UnitAt(1, 1, 100), UnitAt(2, 2, 10)>>]

RewardInputs(c) ==
    IF c = Minimap
    THEN [players : {AllActive}, units : UnitListsUpTo(MaxUnits)] \cup {ScenarioBPrev, ScenarioBCur}
    ELSE [players : [0..2 -> Status], units : {UnitList(MaxHealth, MaxHealth)}]

InitReward ==
    \E c \in {Cav, Minimap} :
        /\ cls = c
        /\ level = IF c = Minimap THEN 1 ELSE 0
        /\ caution_factor \in (IF c = Minimap THEN {InitCaution, RelaxedCaution} ELSE {0})
        /\ prev_state \in RewardInputs(c)
        /\ state \in RewardInputs(c)
        /\ cum_reward = 0
        /\ pc = "reward"
        /\ i = 0
        /\ arg = 0
        /\ entry = None
        /\ sent = <<>>
        /\ loaded = ""
        /\ ret = NoReturn
        /\ printed = <<>>
        /\ calls = 0
        /\ episode = NoEpisode

\* reward = self.reward(self.prev_state, self.state)
ApplyReward ==
    /\ pc = "reward"
    /\ LET r == reward(cls, caution_factor, prev_state, state)
       IN  ret' = [NoReturn EXCEPT !.call = "reward", !.reward = r.value, !.raised = r.raised]
    /\ pc' = "idle"
    /\ calls' = calls + 1
    /\ UNCHANGED <<cls, level, caution_factor, prev_state, state, cum_reward, i, arg, entry,
                   sent, loaded, printed, episode>>

SpecReward == InitReward /\ [][ApplyReward]_vars

\* ------------------------------------------------ the action resolver alone
\* SpecResolve applies resolve_action of either class to one state drawn from
\* the inputs below: up to MaxArmy units, each of the agent or the opponent, at
\* any point of the grid 0..MaxCoord x 0..MaxCoord, in any order.
PlacedUnit(k, o, x, z) == [id |-> k, owner |-> o, health |-> 1, x |-> x, z |-> z]

\* The owner and the position of one unit.
Placements == (1..2) \X (0..MaxCoord) \X (0..MaxCoord)

\* The state whose m units are owned and placed as f says.
Army(m, f) ==
    [players |-> AllActive,
     units |-> [k \in 1..m |-> PlacedUnit(k, f[k][1], f[k][2], f[k][3])]]

InitResolve ==
    \E c \in {Cav, Minimap} :
        /\ cls = c
        /\ level = IF c = Minimap THEN 1 ELSE 0
        /\ caution_factor = IF c = Minimap THEN InitCaution ELSE 0
        /\ prev_state = None
        /\ \E m \in 0..MaxArmy : \E f \in [1..m -> Placements] : state = Army(m, f)
        /\ cum_reward = 0
        /\ pc = "resolve"
        /\ i = 0
        /\ arg = 0
        /\ entry = None
        /\ sent = <<>>
        /\ loaded = ""
        /\ ret = NoReturn
        /\ printed = <<>>
        /\ calls = 0
        /\ episode = NoEpisode

\* action = self.resolve_action(action_index)
ApplyResolve ==
    /\ pc = "resolve"
    /\ \E a \in action_space(cls) :
          LET r == resolve_action(cls, state, a)
          IN  /\ arg' = a
              /\ sent' = IF r.raised THEN <<>> ELSE <<r.cmd>>
              /\ ret' = [NoReturn EXCEPT !.call = "resolve", !.raised = r.raised]
    /\ pc' = "idle"
    /\ calls' = calls + 1
    /\ UNCHANGED <<cls, level, caution_factor, prev_state, state, cum_reward, i, entry,
                   loaded, printed, episode>>

SpecResolve == InitResolve /\ [][ApplyResolve]_vars

\* ================================================================== claims
\* Shorthands for the properties below.
Returned(call) == pc = "idle" /\ ret.call = call /\ ~ret.raised

FinishedPlayers(s) == {k \in {0, 1, 2} : s.players[k] # "active"}

RECURSIVE SumAt(_, _)
SumAt(us, ks) ==
    IF ks = {} THEN 0
    ELSE LET k == CHOOSE j \in ks : TRUE IN us[k].health + SumAt(us, ks \ {k})

\* The total health of the units of owner o present in snapshot s.
TotalHealth(s, o) == SumAt(s.units, {k \in 1..Len(s.units) : s.units[k].owner = o})

\* C1: after every reset(), cum_reward is 0.
C1_ZeroAfterReset == Returned("reset") => cum_reward = 0

\* C2 as stated: the terminal reward is in {-1, 0, +1}, is -1 iff the agent
\* is defeated in the current state, +1 iff the opponent is, 0 otherwise.
C2_AsStated ==
    (Returned("reward") /\ cls = Cav) =>
        /\ ret.reward \in {-RewardScale, 0, RewardScale}
        /\ ret.reward = -RewardScale <=> state.players[1] = "defeated"
        /\ ret.reward = RewardScale <=> state.players[2] = "defeated"

\* C2 (amended): the terminal reward is in {-1, 0, +1}; it is -1 iff the agent
\* is defeated in the current state, +1 iff the opponent is defeated and the
\* agent is not, and 0 otherwise, whatever the previous state is.
C2_TerminalReward ==
    (Returned("reward") /\ cls = Cav) =>
        /\ ret.reward \in {-RewardScale, 0, RewardScale}
        /\ ret.reward = -RewardScale <=> state.players[1] = "defeated"
        /\ ret.reward = RewardScale <=>
              (state.players[2] = "defeated" /\ state.players[1] # "defeated")

\* Both players defeated in the current state: the reward is -1.
C2_Witness ==
    /\ Returned("reward") /\ cls = Cav
    /\ state.players[1] = "defeated" /\ state.players[2] = "defeated"
    /\ prev_state.players[2] = "won"
    /\ ret.reward = -RewardScale

\* C3: the done flag step() returns is true iff some player (0 included) of
\* the state left by the last tick is not 'active'.
C3_DoneIffAnyFinished ==
    Returned("step") => (ret.done <=> FinishedPlayers(state) # {})

\* step() returned done although only player 0 has left 'active'.
C3_Witness ==
    /\ Returned("step") /\ ret.done
    /\ FinishedPlayers(state) = {0}

\* C4: a step() call sends exactly one tick with the single command resolved
\* against the state current before the call, then exactly 7 ticks with no
\* command, in that order, and the reward it returns is computed from the
\* pair (state current before the call, state returned by the 8th tick).
C4_OneCommandSevenTicks ==
    /\ pc = "step" =>
          /\ Len(sent) = i + 1
          /\ Len(sent) <= 8
    /\ (pc = "step" \/ Returned("step")) =>
          /\ sent[1] = resolve_action(cls, entry, arg).cmd
          /\ sent[1] # NoCommand
          /\ \A k \in 2..Len(sent) : sent[k] = NoCommand
    /\ Returned("step") =>
          /\ Len(sent) = 8
          /\ prev_state = entry
          /\ ret.reward = reward(cls, caution_factor, entry, state).value

\* A second step() has returned; its command was a walk, and the two
\* snapshots of its pair differ in the agent's health.
C4_Witness ==
    /\ Returned("step") /\ calls = 3 /\ Len(sent) = 8
    /\ sent[1].type = "walk"
    /\ TotalHealth(entry, 1) # TotalHealth(state, 1)
    /\ entry # StartSnapshot

\* 100 * (min_reward + 0.85 * (max_reward - min_reward)) at level lv and
\* caution factor cf.
C5_Threshold100(lv, cf) ==
    100 * (-5 * cf) + 85 * ((IF lv < 7 THEN lv ELSE 7) + 5 * cf)

\* One call of on_train_result, from the state before it to the state after.
C5_Call ==
    (ret'.call = "on_train_result" /\ calls' = calls + 1) =>
        /\ level' = level + 1 <=> ret'.mean_reward > C5_Threshold100(level, caution_factor)
        /\ level' \in {level, level + 1}
        /\ (level = 1 /\ caution_factor = 10) =>
              /\ C5_Threshold100(level, caution_factor) = -665
              /\ ret'.mean_reward = -600 => level' = 2
              /\ ret'.mean_reward = -700 => level' = 1

\* C5: on_train_result(mean_reward) raises level by exactly 1 iff
\* mean_reward > min_reward + 0.85 * (max_reward - min_reward), with
\* min_reward = -5 * caution_factor and max_reward = min(level, 7) of the state
\* before the call, and leaves it otherwise; level never decreases; at level 1
\* and caution_factor 10 the threshold is -6.65 (-6 advances, -7 does not).
C5_Advancement == [][C5_Call /\ level' >= level]_vars

\* on_train_result(-6) at level 1 has advanced to level 2.
C5_Witness ==
    /\ Returned("on_train_result") /\ ret.mean_reward = -600
    /\ level = 2 /\ printed = <<AdvancingLine(2)>>

C7_NegativeDamageRaises ==
    (pc = "idle" /\ ret.call = "step" /\ cls = Minimap
       /\ (\/ TotalHealth(state, 1) > TotalHealth(prev_state, 1)
           \/ TotalHealth(state, 2) > TotalHealth(prev_state, 2)))
    => ret.raised

\* The return of one step() call, from the state before to the state after.
C8_Return ==
    (pc = "step" /\ pc' = "idle" /\ ~ret'.raised) =>
        /\ Len(Reports(printed')) = (IF ret'.done THEN 1 ELSE 0)
        /\ ret'.done => cum_reward' = 0
        /\ ~ret'.done => (printed' = <<>> /\ cum_reward' = cum_reward + ret'.reward)

\* C8: step() prints an episode-completion report iff it returns done; after
\* a step() that returns done cum_reward is 0; a step() that returns not done
\* prints no report and leaves cum_reward at its old value plus the reward.
C8_ReportIffDone == [][C8_Return]_vars

\* A second step() returned done: one report, carrying the reward of both
\* steps, and the accumulator back at 0.
C8_Witness ==
    /\ Returned("step") /\ ret.done /\ calls = 3
    /\ Len(Reports(printed)) = 1
    /\ Reports(printed)[1].stats.reward # ret.reward
    /\ cum_reward = 0

\* C9: the win flag of an episode-completion report is true iff the opponent
\* (player 2) is 'defeated' in the terminal state; with the agent 'defeated'
\* and the opponent 'active' step() returns done and the terminal reward -1,
\* and reports win = false.
C9_WinIffOpponentDefeated ==
    /\ \A k \in 1..Len(Reports(printed)) :
          Reports(printed)[k].stats.win <=> state.players[2] = "defeated"
    /\ (Returned("step") /\ state.players[1] = "defeated" /\ state.players[2] = "active")
          => /\ ret.done
             /\ cls = Cav => ret.reward = -RewardScale
             /\ Len(Reports(printed)) = 1
             /\ ~Reports(printed)[1].stats.win

\* Scenario D: the agent defeated, the opponent active, win = false reported.
C9_Witness ==
    /\ Returned("step") /\ cls = Cav
    /\ state.players[1] = "defeated" /\ state.players[2] = "active"
    /\ ret.reward = -RewardScale
    /\ Len(Reports(printed)) = 1 /\ ~Reports(printed)[1].stats.win

\* The file names of the levels, written out.
C10_FileOfLevel(lv) ==
    IF lv >= 7 THEN "CavalryVsInfantry.json"
    ELSE << "CavalryVsInfantryL1.json", "CavalryVsInfantryL2.json",
            "CavalryVsInfantryL3.json", "CavalryVsInfantryL4.json",
            "CavalryVsInfantryL5.json", "CavalryVsInfantryL6.json" >>[lv]

\* C10: reset() loads 'CavalryVsInfantryL<level>.json' when the level in
\* force at that reset is below 7 and 'CavalryVsInfantry.json' from level 7 on.
C10_ScenarioOfLevel ==
    (Returned("reset") /\ cls = Minimap) => loaded = C10_FileOfLevel(level)

\* reset() after an advancement to level 7 loads the canonical file.
C10_Witness ==
    /\ Returned("reset") /\ cls = Minimap /\ calls = 2
    /\ level = 7 /\ loaded = "CavalryVsInfantry.json"

\* The indices (in the state's unit order) of the units of owner o.
IndicesOf(s, o) == {k \in 1..Len(s.units) : s.units[k].owner = o}

RECURSIVE SumCoord(_, _, _)
SumCoord(us, ks, axis) ==
    IF ks = {} THEN 0
    ELSE LET k == CHOOSE j \in ks : TRUE
         IN  (IF axis = "x" THEN us[k].x ELSE us[k].z) + SumCoord(us, ks \ {k}, axis)

\* n * n times the squared Euclidean distance of unit k of s to the centroid
\* of the n agent units (0 for every unit when the agent has none: the
\* distances are then all the same undefined number).
C11_Dist(s, k) ==
    LET ag == IndicesOf(s, 1)
        n == Cardinality(ag)
        dx == n * s.units[k].x - SumCoord(s.units, ag, "x")
        dz == n * s.units[k].z - SumCoord(s.units, ag, "z")
    IN  dx * dx + dz * dz

\* The first, in the state's unit order, of the opponent units nearest to the
\* agent centroid.
C11_Nearest(s) ==
    CHOOSE t \in IndicesOf(s, 2) :
        /\ \A j \in IndicesOf(s, 2) : C11_Dist(s, t) <= C11_Dist(s, j)
        /\ \A j \in IndicesOf(s, 2) : j < t => C11_Dist(s, j) > C11_Dist(s, t)

C11_AttackIndex == IF cls = Minimap THEN arg = 8 ELSE arg # 0

\* C11: in the binary variant every action index other than 0, and in the
\* directional variant index 8 (0-7 being move commands), resolves to an attack
\* command issued to all agent units of the current state, whose target is the
\* opponent unit nearest to the agent centroid, the first of them in the
\* state's unit order when several are nearest.
C11_AttackNearest ==
    (pc = "idle" /\ ret.call = "resolve") =>
        /\ (C11_AttackIndex /\ IndicesOf(state, 2) # {}) =>
              /\ ~ret.raised
              /\ Len(sent) = 1
              /\ sent[1].type = "attack"
              /\ Len(sent[1].units) = Cardinality(IndicesOf(state, 1))
              /\ \A k \in IndicesOf(state, 1) :
                    \E j \in 1..Len(sent[1].units) : sent[1].units[j] = state.units[k].id
              /\ sent[1].target = state.units[C11_Nearest(state)].id
        /\ (~C11_AttackIndex /\ ~ret.raised) => sent[1].type = "walk"

\* An attack was resolved with two opponent units at the same, smallest
\* distance of the agent's unit, and the target is the first of the two.
C11_Witness ==
    /\ Returned("resolve") /\ cls = Minimap /\ arg = 8
    /\ Cardinality(IndicesOf(state, 1)) = 1
    /\ \E a, b \in IndicesOf(state, 2) :
          /\ a < b
          /\ C11_Dist(state, a) = C11_Dist(state, b)
          /\ \A j \in IndicesOf(state, 2) : C11_Dist(state, a) <= C11_Dist(state, j)
          /\ \A j \in IndicesOf(state, 2) : j < a => C11_Dist(state, j) > C11_Dist(state, a)
          /\ sent[1].target = state.units[a].id

\* C12: whatever level the instance was configured to start at, and whatever
\* on_train_result calls were made, level > 5 implies caution_factor = 5.
C12_RelaxedAboveFive ==
    (cls = Minimap /\ level > 5) => caution_factor = 5

\* C13: right after reset() returns, the previous state and the current state
\* are the same snapshot, the one returned by the reveal-map tick.
C13_SameSnapshot ==
    Returned("reset") => (prev_state = state /\ sent = <<reveal_map>>)

Max0(x) == IF x > 0 THEN x ELSE 0

\* max(0, previous total health - current total health) of the side o.
C14_HealthLost(o) == Max0(TotalHealth(prev_state, o) - TotalHealth(state, o))

\* C14: the health-lost term of each side that enters the damage-shaping
\* reward is max(0, previous total health - current total health), so the
\* reward never exceeds (opponent health lost) - 0.0001.
C14_ClampedLoss ==
    (Returned("reward") /\ cls = Minimap) =>
        /\ ret.reward =
              (C14_HealthLost(2) - caution_factor * C14_HealthLost(1)) * RewardScale - 1
        /\ ret.reward <= C14_HealthLost(2) * RewardScale - 1

\* C15: once step() has returned done, a step() call made without a reset()
\* in between sends no tick to the engine, computes no reward and prints no
\* second report: whatever is called then, short of reset(), leaves the state
\* and the accumulator alone.
C15_NoStepAfterDone ==
    [][(pc = "idle" /\ episode.over /\ ret'.call # "reset") =>
          /\ pc' = "idle"
          /\ state' = state
          /\ cum_reward' = cum_reward
          /\ Reports(printed') = <<>>]_vars

\* C16: the resolver never fails and never issues a command with an undefined
\* coordinate, whatever units the state holds.
C16_DefinedOutcome ==
    (pc = "idle" /\ ret.call = "resolve") =>
        /\ ~ret.raised
        /\ \A k \in 1..Len(sent) : ~sent[k].nan

\* One call completes or moves on, seen from the state before it.
C17_Step ==
    LET training == calls' = calls + 1 /\ ret'.call = "on_train_result"
    IN  /\ training =>
              /\ cum_reward' = cum_reward
              /\ prev_state' = prev_state
              /\ state' = state
              /\ sent' = <<>>
              /\ loaded' = loaded
        /\ ~training =>
              /\ level' = level
              /\ caution_factor' = caution_factor

\* C17: reset() and step() never change level or caution_factor;
\* on_train_result() never changes cum_reward, the previous state or the
\* current state and sends no tick; level and caution_factor change only
\* inside on_train_result.
C17_Frame == [][C17_Step]_vars

\* on_train_result has advanced from level 5 to 6 and relaxed the caution
\* factor in the middle of an episode, the accumulator holding a reward.
C17_Witness ==
    /\ Returned("on_train_result") /\ printed = <<AdvancingLine(6)>>
    /\ level = 6 /\ caution_factor = 5
    /\ cum_reward # 0 /\ state # None /\ ~episode.over

\* C18: the reward field of an episode-completion report is the sum of the
\* rewards returned by the step() calls of that episode, those made since the
\* most recent reset(), the terminal one included.
C18_ReportSum ==
    (Returned("step") /\ ret.done) =>
        /\ Len(Reports(printed)) = 1
        /\ Reports(printed)[1].stats.reward = episode.reward

\* C19: the level of an episode-completion report, the level and
\* caution_factor of its reward_ratio, and the caution_factor of every reward
\* of the episode are those in force when reset() loaded the episode.
C19_EpisodeCurriculum ==
    (Returned("step") /\ cls = Minimap /\ episode.level > 0) =>
        /\ ret.reward =
              ((TotalHealth(entry, 2) - TotalHealth(state, 2))
                 - episode.caution_factor * (TotalHealth(entry, 1) - TotalHealth(state, 1)))
              * RewardScale - 1
        /\ ret.done =>
              /\ Reports(printed)[1].stats.level = episode.level
              /\ Reports(printed)[1].stats.reward_ratio.den =
                    ((IF episode.level < 7 THEN episode.level ELSE 7)
                       + 5 * episode.caution_factor) * RewardScale

\* max_reward - min_reward of the current level and caution factor, as the
\* report computes it.
C20_Denominator == reward_ratio(cum_reward, level, caution_factor).den

\* C20: the denominator of reward_ratio, max_reward - min_reward =
\* min(level, 7) + 5 * caution_factor, is strictly positive.
C20_PositiveDenominator ==
    cls = Minimap =>
        /\ C20_Denominator =
              ((IF level < 7 THEN level ELSE 7) + 5 * caution_factor) * RewardScale
        /\ C20_Denominator > 0

\* on_train_result has advanced past the ceiling of max_reward with the
\* relaxed caution factor: the denominator is 7 + 25.
C20_Witness ==
    /\ Returned("on_train_result") /\ level > 7 /\ caution_factor = 5
    /\ C20_Denominator = 32 * RewardScale
====
